---- MODULE Spec2Model ----
(***************************************************************************)
(* Model of i3pystatus/weather/weathergov.py: the WeathergovParser fetcher *)
(* (get_weather_data, load_json) and the Weathergov backend's              *)
(* check_weather cycle that normalises one observation into self.data.     *)
(*                                                                         *)
(* Encoding of Python values                                               *)
(*   None            <<>>            (an optional value is <<>> or <<v>>)  *)
(*   int n           [t |-> "int",   v |-> n]                              *)
(*   float x         [t |-> "float", v |-> 10*x]   (one decimal digit)     *)
(*   an exception    its class name as a string, "" meaning "none raised"  *)
(* windDirection values are carried in tenths of a degree so that the      *)
(* half-degree sector boundaries (22.5, 337.5, 382.5) are representable.   *)
(***************************************************************************)
EXTENDS Integers, Sequences, FiniteSets, TLC

VARIABLES
    units,          \* Weathergov.units (configuration)
    location_code,  \* Weathergov.location_code (configuration), None or a code
    update_error,   \* Weathergov.update_error (configuration): the error marker
    data,           \* self.data: the output record, key -> string
    weather_data,   \* self.parser.weather_data: None or the decoded JSON
    lastOutcome,    \* what requests.get did in the last cycle (its input)
    repeated,       \* TRUE when the last two cycles saw the same outcome
    hadData,        \* TRUE when weather_data held a response as the last cycle began
    prevData,       \* self.data as it was when the last cycle began
    written,        \* keys of self.data other than update_error assigned by the last cycle
    exitPath,       \* the return statement by which the last cycle left check_weather
    escaped,        \* class of the exception that left check_weather, "" if none
    fetchCalls,     \* number of requests.get calls made by the last cycle
    returned        \* value returned by the last get_weather_data call

vars == <<units, location_code, update_error, data, weather_data, lastOutcome,
          repeated, hadData, prevData, written, exitPath, escaped, fetchCalls, returned>>

---------------------------------------------------------------------------
(* Python values *)

None == <<>>

Some(x) == <<x>>

PyInt(n) == [t |-> "int", v |-> n]

PyFloat(tenths) == [t |-> "float", v |-> tenths]

\* str(): "None" for None, decimal digits for an int, repr with one decimal
\* digit for a float.
Digits(n) == IF n < 0 THEN "-" \o ToString(-n) ELSE ToString(n)

str(o) ==
    IF o = None THEN "None"
    ELSE IF o[1].t = "int" THEN Digits(o[1].v)
    ELSE LET a == IF o[1].v < 0 THEN -o[1].v ELSE o[1].v
         IN (IF o[1].v < 0 THEN "-" ELSE "") \o ToString(a \div 10) \o "." \o ToString(a % 10)

\* round(n / d) for n >= 0, d > 0: Python rounds halves to the even integer.
RoundHalfEven(n, d) ==
    LET q == n \div d
        r == n % d
    IN IF 2 * r < d THEN q
       ELSE IF 2 * r > d THEN q + 1
       ELSE IF q % 2 = 0 THEN q ELSE q + 1

---------------------------------------------------------------------------
(* Results of Python expressions: a value, or the class of the exception raised *)

Ok(v) == [exc |-> "", val |-> v]

Raise(e) == [exc |-> e, val |-> None]

\* The exception raised by the first failing expression of a statement list.
FirstExc(rs) ==
    LET bad == {i \in 1..Len(rs) : rs[i].exc # ""}
    IN IF bad = {} THEN ""
       ELSE rs[CHOOSE i \in bad : \A j \in bad : i <= j].exc

---------------------------------------------------------------------------
(* WeathergovParser *)

\* json.loads on the response body.  A body is described by its text class;
\* "object" is a JSON object whose 'properties' member is the observation
\* carried in the properties field.
json_loads(content) ==
    CASE content.text = "malformed" -> Raise("JSONDecodeError")
      [] content.text = "bad_utf8" -> Raise("UnicodeDecodeError")
      [] content.text = "null" -> Ok(None)
      [] content.text = "list" ->
            Ok(Some([type |-> "list", has_properties |-> FALSE,
                     properties |-> content.properties]))
      [] content.text = "object_without_properties" ->
            Ok(Some([type |-> "dict", has_properties |-> FALSE,
                     properties |-> content.properties]))
      [] OTHER ->
            Ok(Some([type |-> "dict", has_properties |-> TRUE,
                     properties |-> content.properties]))

\* load_json: JSONDecodeError is logged and turned into None; any other
\* exception of json.loads leaves load_json.
load_json(json_input) ==
    LET r == json_loads(json_input)
    IN IF r.exc = "JSONDecodeError" THEN Ok(None) ELSE r

\* get_weather_data, line 21: self.weather_data = None
ResetKeepsStale(cached) == cached

ResetWeatherData(cached) == None

\* get_weather_data, line 38: except Exception
FetcherCatches(e) == e # ""

\* get_weather_data(url): the new self.weather_data, the value returned, the
\* exception leaving the method and the number of requests.get calls.
get_weather_data(cached, outcome) ==
    LET wd0 == ResetWeatherData(cached)
        lj == load_json(outcome.content)
    IN IF outcome.raises
       THEN [weather_data |-> wd0, ret |-> None, calls |-> 1,
             exc |-> IF FetcherCatches("ConnectionError") THEN "" ELSE "ConnectionError"]
       ELSE IF outcome.status_code # 200
       THEN [weather_data |-> wd0, ret |-> wd0, calls |-> 1, exc |-> ""]
       ELSE IF lj.exc # ""
       THEN [weather_data |-> wd0, ret |-> None, calls |-> 1,
             exc |-> IF FetcherCatches(lj.exc) THEN "" ELSE lj.exc]
       ELSE [weather_data |-> lj.val, ret |-> lj.val, calls |-> 1, exc |-> ""]

---------------------------------------------------------------------------
(* Weathergov: helpers of check_weather *)

\* The keys check_weather assigns in self.data.
DataKeys ==
    {"text_description", "observation_time", "current_temp", "high_temp",
     "low_temp", "dewpoint", "temp_unit", "wind_direction", "wind_speed",
     "wind_gust", "wind_unit", "pressure", "pressure_unit", "visibility",
     "visibility_unit", "humidity", "heat_index"}

Keys == DataKeys \cup {"update_error"}

\* Line 126: self.units not in ('imperial', 'metric')
UnitsAlwaysValid(u) == TRUE

UnitsValid(u) == u \in {"imperial", "metric"}

\* self.data['update_error'] = self.update_error  (lines 131, 140, 151, 161, 254)
SetErrorReplacesRecord(d, marker) ==
    [k \in Keys |-> IF k = "update_error" THEN marker ELSE ""]

SetErrorSkipped(d, marker) == d

SetErrorAppends(d, marker) ==
    [d EXCEPT !["update_error"] = d["update_error"] \o marker]

SetError(d, marker) == [d EXCEPT !["update_error"] = marker]

\* self.data['update_error'] = ''  (lines 133, 142)
ClearError(d) == [d EXCEPT !["update_error"] = ""]

\* Line 248: except Exception
CatchesKeyErrorOnly(e) == e = "KeyError"

Catches(e) == e # ""

\* datetime.fromisoformat: a datetime for an ISO-8601 string, ValueError otherwise.
ISOStrings == {"2024-05-01T12:00:00+00:00"}

fromisoformat(s) ==
    IF s \in ISOStrings THEN Ok("datetime(" \o s \o ")") ELSE Raise("ValueError")

\* Line 117: toFahrenheit, (value * 1.8) + 32 on an int; None * 1.8 is a TypeError.
toFahrenheit(value) ==
    IF value = None THEN Raise("TypeError")
    ELSE Ok(Some(PyFloat(value[1].v * 18 + 320)))

\* round(value * scale / divisor) as used at lines 202-223; arithmetic on
\* None is a TypeError.  round(x / 1.609) is round_div(x, 1000, 1609).
round_div(value, scale, divisor) ==
    IF value = None THEN Raise("TypeError")
    ELSE Ok(Some(PyInt(RoundHalfEven(value[1].v * scale, divisor))))

\* Line 180: a set literal; the duplicate "N" collapses.
directions == {"N", "NE", "E", "SE", "S", "SW", "W", "NW", "N"}

\* Line 182: round((wind_deg % 360) / 45); wind_deg in tenths of a degree.
WindIndex(wind_deg) ==
    IF wind_deg = None THEN Raise("TypeError")
    ELSE Ok(RoundHalfEven(wind_deg[1] % 3600, 450))

\* Line 183: directions[wind_index].  directions is a set object, and a set
\* is not subscriptable: the expression raises TypeError for every index.
Subscript(table, index) == Raise("TypeError")

---------------------------------------------------------------------------
(* Weathergov.check_weather *)

\* Lines 195-224: unit conversion.  Each local is the result of its right-hand
\* side, in statement order; wind_gust None stands for the local left unbound.
\* The temperature units are written without their degree sign.
Convert(u, observed) ==
    LET zero == Some(PyInt(0))
        gust == observed.windGust
        rs == IF u = "imperial"
              THEN << toFahrenheit(observed.temperature),
                      toFahrenheit(zero),
                      toFahrenheit(zero),
                      toFahrenheit(observed.dewpoint),
                      toFahrenheit(observed.heatIndex),
                      round_div(observed.windSpeed, 1000, 1609),
                      IF gust # None THEN round_div(gust, 1000, 1609) ELSE Ok(None),
                      round_div(observed.barometricPressure, 1, 3386),
                      round_div(observed.visibility, 1, 1609) >>
              ELSE << Ok(observed.temperature),
                      Ok(zero),
                      Ok(zero),
                      Ok(observed.dewpoint),
                      round_div(observed.heatIndex, 1, 1),
                      round_div(observed.windSpeed, 1, 1),
                      IF gust # None THEN round_div(gust, 1, 1) ELSE Ok(None),
                      round_div(observed.barometricPressure, 1, 100),
                      round_div(observed.visibility, 1, 1000) >>
        imperial == u = "imperial"
    IN [exc |-> FirstExc(rs),
        current_temp |-> rs[1].val, high_temp |-> rs[2].val, low_temp |-> rs[3].val,
        dewpoint |-> rs[4].val, heat_index |-> rs[5].val, wind_speed |-> rs[6].val,
        wind_gust |-> rs[7].val, pressure |-> rs[8].val, visibility |-> rs[9].val,
        temp_unit |-> IF imperial THEN "F" ELSE "C",
        wind_unit |-> IF imperial THEN "mph" ELSE "kph",
        pressure_unit |-> IF imperial THEN "in" ELSE "mb",
        visibility_unit |-> IF imperial THEN "mi" ELSE "km"]

\* Lines 227-246: the assignments to self.data, in order, each with the result
\* of its right-hand side.  observation_time None stands for the unbound local.
Assignments(observed, observation_time, wind_direction, c) ==
    LET hum == round_div(observed.relativeHumidity, 1, 1)
        A(k, r) == [key |-> k, res |-> r]
    IN << A("text_description",
            Ok(IF observed.textDescription = None THEN "None"
               ELSE observed.textDescription[1])),
          A("observation_time",
            IF observation_time = None THEN Raise("UnboundLocalError")
            ELSE Ok(observation_time[1])),
          A("current_temp", Ok(str(c.current_temp))),
          A("high_temp", Ok(str(c.high_temp))),
          A("low_temp", Ok(str(c.low_temp))),
          A("dewpoint", Ok(str(c.dewpoint))),
          A("temp_unit", Ok(c.temp_unit)),
          A("wind_direction", Ok(wind_direction)),
          A("wind_speed", Ok(str(c.wind_speed))),
          A("wind_gust",
            Ok(IF observed.windGust = None THEN "" ELSE str(c.wind_gust))),
          A("wind_unit", Ok(c.wind_unit)),
          A("pressure", Ok(str(c.pressure))),
          A("pressure_unit", Ok(c.pressure_unit)),
          A("visibility", Ok(str(c.visibility))),
          A("visibility_unit", Ok(c.visibility_unit)),
          A("humidity", IF hum.exc # "" THEN hum ELSE Ok(str(hum.val) \o "%")),
          A("heat_index", Ok(str(c.heat_index))) >>

\* The record after the first n assignments of asg.
WriteFirst(d, asg, n) ==
    [data |-> [k \in Keys |->
                 IF \E i \in 1..n : asg[i].key = k
                 THEN asg[CHOOSE i \in 1..n : asg[i].key = k].res.val
                 ELSE d[k]],
     written |-> {asg[i].key : i \in 1..n},
     exc |-> IF n = Len(asg) THEN "" ELSE asg[n + 1].res.exc]

\* The number of leading assignments of asg that do not raise.
Completed(asg) ==
    Cardinality({i \in 1..Len(asg) : \A j \in 1..i : asg[j].res.exc = ""})

\* Executes the assignments in order up to the first one that raises.
WriteAll(d, asg) == WriteFirst(d, asg, Completed(asg))

\* Lines 195-246 once wind_direction has been looked up.
ConvertAndWrite(d, observed, observation_time, wind_direction, c) ==
    IF c.exc # "" THEN [data |-> d, written |-> {}, exc |-> c.exc]
    ELSE WriteAll(d, Assignments(observed, observation_time, wind_direction, c))

\* Lines 182-183: wind_index, then directions[wind_index].
WindDirection(wi) == IF wi.exc # "" THEN wi ELSE Subscript(directions, wi.val)

\* Lines 179-246, wdir being the result of the direction lookup.
AfterLookup(u, d, observed, observation_time, wdir) ==
    IF wdir.exc # "" THEN [data |-> d, written |-> {}, exc |-> wdir.exc]
    ELSE ConvertAndWrite(d, observed, observation_time, wdir.val,
                         Convert(u, observed))

\* Lines 166-169: observation_time, None standing for the local left unbound
\* when fromisoformat raises (except Exception: pass).
ObservationTime(ts) == IF ts.exc = "" THEN Some(ts.val) ELSE None

\* Lines 166-246 for an observation that is a JSON object.
Normalize(u, d, observed) ==
    AfterLookup(u, d, observed,
                ObservationTime(fromisoformat(IF observed.timestamp = None THEN ""
                                              ELSE observed.timestamp[1])),
                WindDirection(WindIndex(observed.windDirection)))

\* The outcome of the try body once the observation has been normalised.
Normalized(n) ==
    [data |-> n.data, written |-> n.written, exc |-> n.exc,
     exit |-> IF n.exc = "" THEN "success" ELSE ""]

\* Lines 145-246: the body of the try statement.  exit names the return taken,
\* "" when the body ends by an exception.
TryBody(u, marker, d, g) ==
    IF g.exc # ""
    THEN [data |-> d, written |-> {}, exc |-> g.exc, exit |-> ""]
    ELSE IF g.weather_data = None
    THEN [data |-> SetError(d, marker), written |-> {}, exc |-> "", exit |-> "no_data"]
    ELSE IF g.weather_data[1].type # "dict"
    THEN [data |-> d, written |-> {}, exc |-> "TypeError", exit |-> ""]
    ELSE IF ~g.weather_data[1].has_properties
    THEN [data |-> SetError(d, marker), written |-> {}, exc |-> "",
          exit |-> "no_properties"]
    ELSE IF g.weather_data[1].properties = None
    THEN [data |-> d, written |-> {}, exc |-> "AttributeError", exit |-> ""]
    ELSE Normalized(Normalize(u, d, g.weather_data[1].properties[1]))

\* Lines 248-254: the try body's outcome b after the except clause.
Handle(marker, g, b) ==
    IF b.exc = ""
    THEN [data |-> b.data, weather_data |-> g.weather_data,
          written |-> b.written, exitPath |-> b.exit, escaped |-> "",
          fetchCalls |-> g.calls, returned |-> g.ret]
    ELSE IF Catches(b.exc)
    THEN [data |-> SetError(b.data, marker), weather_data |-> g.weather_data,
          written |-> b.written, exitPath |-> "catch_all", escaped |-> "",
          fetchCalls |-> g.calls, returned |-> g.ret]
    ELSE [data |-> b.data, weather_data |-> g.weather_data,
          written |-> b.written, exitPath |-> "raised", escaped |-> b.exc,
          fetchCalls |-> g.calls, returned |-> g.ret]

\* Lines 144-254: the try statement, g being what get_weather_data did.
TryStatement(u, marker, d, g) == Handle(marker, g, TryBody(u, marker, d, g))

\* check_weather: one whole cycle, from the configuration, the record, the
\* parser's cached data and what the HTTP request does.
CheckWeather(u, loc, marker, d, cached, outcome) ==
    IF ~UnitsValid(u)
    THEN [data |-> SetError(d, marker), weather_data |-> cached, written |-> {},
          exitPath |-> "units", escaped |-> "", fetchCalls |-> 0, returned |-> None]
    ELSE IF loc = None
    THEN [data |-> SetError(ClearError(d), marker), weather_data |-> cached,
          written |-> {}, exitPath |-> "location", escaped |-> "",
          fetchCalls |-> 0, returned |-> None]
    ELSE TryStatement(u, marker, ClearError(ClearError(d)),
                      get_weather_data(cached, outcome))

---------------------------------------------------------------------------
(* Inputs: configurations, initial records and what one HTTP request can do *)

UnitsValues == {"imperial", "metric", "kelvin"}

LocationCodes == {None, Some("KNYC")}

ErrorMarkers == {"!", ""}

\* self.data is the mapping the weather module hands to the backend; a cycle
\* may find it blank or holding the values of earlier updates.
InitialRecords == {[k \in Keys |-> ""], [k \in Keys |-> "old"]}

\* A complete observation: 20 C, wind from 45 degrees at 16 km/h gusting 20,
\* 101320 Pa, visibility 16090 m.
BaseObservation ==
    [timestamp |-> Some("2024-05-01T12:00:00+00:00"),
     textDescription |-> Some("Clear"),
     temperature |-> Some(PyInt(20)),
     dewpoint |-> Some(PyInt(10)),
     windDirection |-> Some(450),
     windSpeed |-> Some(PyInt(16)),
     windGust |-> Some(PyInt(20)),
     barometricPressure |-> Some(PyInt(101320)),
     visibility |-> Some(PyInt(16090)),
     heatIndex |-> Some(PyInt(25)),
     relativeHumidity |-> Some(PyInt(55))]

\* Wind headings in tenths of a degree: 0, 22.5, 45, 180, 337.5, 359, 360, 382.5.
WindHeadings == {0, 225, 450, 1800, 3375, 3590, 3600, 3825}

Observations ==
    {[BaseObservation EXCEPT ![f] = None] : f \in DOMAIN BaseObservation}
    \cup {[BaseObservation EXCEPT !.windDirection = Some(h)] : h \in WindHeadings}
    \cup {[BaseObservation EXCEPT !.timestamp = Some("yesterday")],
          [BaseObservation EXCEPT !.windGust = None, !.windDirection = Some(0)]}

BodyTexts ==
    {"malformed", "bad_utf8", "null", "list", "object_without_properties", "object"}

\* A 200 response whose body is a JSON object with the observation o as its
\* 'properties' member.
Observed(o) ==
    [raises |-> FALSE, status_code |-> 200,
     content |-> [text |-> "object", properties |-> Some(o)]]

\* What requests.get does: raise, or answer with a status and a body.
Outcomes ==
    {[raises |-> TRUE, status_code |-> 0,
      content |-> [text |-> "malformed", properties |-> None]]}
    \cup {[raises |-> FALSE, status_code |-> sc,
           content |-> [text |-> "object", properties |-> Some(BaseObservation)]]
          : sc \in {404, 500}}
    \cup {[raises |-> FALSE, status_code |-> 200,
           content |-> [text |-> t, properties |-> None]] : t \in BodyTexts}
    \cup {Observed(o) : o \in Observations}

NoOutcome ==
    [raises |-> FALSE, status_code |-> 0,
     content |-> [text |-> "", properties |-> None]]

---------------------------------------------------------------------------
(* The state machine *)

Init ==
    /\ units \in UnitsValues
    /\ location_code \in LocationCodes
    /\ update_error \in ErrorMarkers
    /\ data \in InitialRecords
    /\ weather_data = None
    /\ lastOutcome = NoOutcome
    /\ repeated = FALSE
    /\ hadData = FALSE
    /\ prevData = data
    /\ written = {}
    /\ exitPath = "init"
    /\ escaped = ""
    /\ fetchCalls = 0
    /\ returned = None

\* One update cycle: Weathergov.check_weather with the HTTP request behaving
\* as outcome.
check_weather(outcome) ==
    \E r \in {CheckWeather(units, location_code, update_error, data,
                          weather_data, outcome)} :
       /\ data' = r.data
       /\ weather_data' = r.weather_data
       /\ written' = r.written
       /\ exitPath' = r.exitPath
       /\ escaped' = r.escaped
       /\ fetchCalls' = r.fetchCalls
       /\ returned' = IF r.fetchCalls = 0 THEN returned ELSE r.returned
       /\ prevData' = data
       /\ repeated' = (outcome = lastOutcome)
       /\ hadData' = (weather_data # None)
       /\ lastOutcome' = outcome
       /\ UNCHANGED <<units, location_code, update_error>>

Next == \E outcome \in Outcomes : check_weather(outcome)

Spec == Init /\ [][Next]_vars

---------------------------------------------------------------------------
(* Properties *)

\* A cycle has run.
Ran == exitPath # "init"

\* The configuration is one check_weather rejects.
ConfigError == units \notin {"imperial", "metric"} \/ location_code = None

\* The request of the last cycle was made and yielded no observation: a
\* transport exception, a status other than 200, or a body that does not decode.
FetchFailed ==
    /\ fetchCalls = 1
    /\ \/ lastOutcome.raises
       \/ lastOutcome.status_code # 200
       \/ lastOutcome.content.text \in {"malformed", "bad_utf8", "null"}

\* The last cycle fetched a JSON object carrying the observation o.
Fetched(o) == fetchCalls = 1 /\ lastOutcome = Observed(o)

\* The decoded response of the last cycle does not have the expected schema.
SchemaError ==
    /\ fetchCalls = 1
    /\ ~FetchFailed
    /\ \/ lastOutcome.content.text \in {"list", "object_without_properties"}
       \/ lastOutcome.content.properties = None
       \/ \E f \in {"windDirection", "windSpeed", "barometricPressure",
                    "visibility", "heatIndex", "relativeHumidity"} :
              lastOutcome.content.properties[1][f] = None

\* C1: with units outside {imperial, metric} or no location code, a cycle sets
\* update_error to the configured marker, stops at the configuration check and
\* makes no HTTP request.
C1_ConfigErrorBeforeFetch ==
    (Ran /\ ConfigError) =>
        /\ data["update_error"] = update_error
        /\ exitPath \in {"units", "location"}
        /\ fetchCalls = 0

C1_Witness ==
    /\ units = "kelvin"
    /\ exitPath = "units"
    /\ data["update_error"] = "!"
    /\ fetchCalls = 0

\* C2: no exception ever leaves check_weather, and a cycle with a
\* configuration, transport, decode or schema failure ends with update_error
\* equal to the configured marker.
C2_FailuresSetMarker ==
    /\ escaped = ""
    /\ (Ran /\ (ConfigError \/ FetchFailed \/ SchemaError)) =>
           data["update_error"] = update_error

C2_Witness ==
    /\ Fetched([BaseObservation EXCEPT !.heatIndex = None])
    /\ exitPath = "catch_all"
    /\ escaped = ""
    /\ data["update_error"] = "!"

\* C3: when the request yields no observation, get_weather_data returns None
\* and every key of the record other than update_error keeps the value it had
\* when the cycle began.
C3_NullFetchFrame ==
    FetchFailed =>
        /\ returned = None
        /\ \A k \in DataKeys : data[k] = prevData[k]

C3_Witness ==
    /\ FetchFailed
    /\ lastOutcome.status_code = 404
    /\ prevData["current_temp"] = "old"
    /\ data["current_temp"] = "old"
    /\ prevData["update_error"] = "old"
    /\ data["update_error"] = "!"

\* C4 as stated: at the end of each cycle update_error is non-empty exactly
\* when the cycle wrote no data field; the catch-all exit has written none and
\* an empty update_error comes with all of them written.
C4_Original ==
    Ran =>
        /\ (data["update_error"] # "") <=> (written = {})
        /\ (exitPath = "catch_all") => (written = {})
        /\ (data["update_error"] = "") => (written = DataKeys)

\* C4 amended: when the configured error marker is non-empty, update_error is
\* non-empty at the end of a cycle exactly when the cycle wrote no data field;
\* the catch-all exit has written none and an empty update_error comes with
\* all of them written.
C4_MarkerIffNothingWritten ==
    (Ran /\ update_error # "") =>
        /\ (data["update_error"] # "") <=> (written = {})
        /\ (exitPath = "catch_all") => (written = {})
        /\ (data["update_error"] = "") => (written = DataKeys)

C4_Witness ==
    /\ update_error = "!"
    /\ Fetched(BaseObservation)
    /\ exitPath = "catch_all"
    /\ data["update_error"] = "!"
    /\ written = {}

\* C5: with imperial units, a location code, a 200 response and the complete
\* observation (20 C, 101320 Pa) the cycle ends with update_error empty,
\* current_temp "68.0" and pressure "30".
C5_ImperialEndToEnd ==
    (units = "imperial" /\ Fetched(BaseObservation)) =>
        /\ data["update_error"] = ""
        /\ data["current_temp"] = "68.0"
        /\ data["pressure"] = "30"

\* C6: for every heading the direction lookup raises nothing and the compass
\* label is written to wind_direction: N for 0, 360 and the headings of the
\* 337.5-382.5 sector, NE for 45.
C6_WindDirectionLabel ==
    \A h \in {0, 450, 3375, 3600, 3825} :
        Fetched([BaseObservation EXCEPT !.windDirection = Some(h)]) =>
            /\ exitPath # "catch_all"
            /\ data["wind_direction"] = IF h = 450 THEN "NE" ELSE "N"

\* C7: a cycle whose observation has a null windGust succeeds and writes
\* wind_gust as the empty string; a gust of 20 km/h in metric mode is written
\* as "20".
C7_WindGust ==
    /\ Fetched([BaseObservation EXCEPT !.windGust = None]) =>
           (exitPath = "success" /\ data["wind_gust"] = "")
    /\ (units = "metric" /\ Fetched(BaseObservation)) =>
           (exitPath = "success" /\ data["wind_gust"] = "20")

\* C8: a cycle whose observation is complete except for a missing or
\* non-ISO timestamp surfaces no error: it writes the other fields and ends
\* with update_error empty.
C8_TimestampSkipped ==
    \A ts \in {None, Some("yesterday")} :
        Fetched([BaseObservation EXCEPT !.timestamp = ts]) =>
            /\ data["update_error"] = ""
            /\ DataKeys \ {"observation_time"} \subseteq written

\* C9: when two consecutive cycles see the same fetch outcome, the record
\* after the second cycle equals the record after the first.
C9_Idempotent == repeated => data = prevData

C9_Witness ==
    /\ repeated
    /\ Fetched(BaseObservation)
    /\ exitPath = "catch_all"
    /\ data = prevData
    /\ data["update_error"] = "!"

\* C10: a cycle whose fetch fails finds weather_data reset to None and leaves
\* by the no-data exit, whatever an earlier cycle cached.
C10_NoStaleObservation ==
    FetchFailed => (weather_data = None /\ exitPath = "no_data")

C10_Witness ==
    /\ hadData
    /\ FetchFailed
    /\ weather_data = None
    /\ exitPath = "no_data"

====
